---- MODULE Spec2Model ----
(***************************************************************************)
(* A model of mockpipe (src/src/lib.rs): SyncBuffer, a VecDeque<u8> behind *)
(* one Mutex with the condition variables can_read and can_write, and      *)
(* MockPipe, an endpoint holding a read buffer, a write buffer and a       *)
(* shared timeout cell.                                                    *)
(*                                                                         *)
(* Every critical section of the code (lock .. unlock, or lock .. wait) is *)
(* one action: the mutex makes it atomic.  A thread blocked in             *)
(* Condvar::wait has pc "waiting"; once notified, timed out or spuriously  *)
(* woken it has pc "woken" and has still to take the mutex again.          *)
(*                                                                         *)
(* io::Read::read and io::Write::write take &mut self, so one MockPipe     *)
(* handle is used by one thread at a time: thread t owns the handle        *)
(* pipes[t]; handles of several threads are clones of the endpoints that   *)
(* loopback()/pair() returned.                                             *)
(***************************************************************************)
EXTENDS Integers, Sequences, FiniteSets, TLC

\* ------------------------------------------------------------- bounds
\* Requested capacities are 0..MaxCap.
MaxCap == 2
\* Slices passed to read/write/read_exact/write_all have length 0..MaxLen.
MaxLen == 2
\* Bytes are 0..MaxByte (u8 in the code).
MaxByte == 1
\* Writers stop offering bytes once MaxOffered bytes are accepted or pending.
MaxOffered == 3

\* The threads, each owning one MockPipe handle: the two endpoints of a pair,
\* or an endpoint and its clone.
Threads == {1, 2}
Bytes == 0 .. MaxByte

RECURSIVE SeqsUpTo(_)
SeqsUpTo(n) ==
  IF n = 0 THEN {<<>>}
  ELSE LET S == SeqsUpTo(n - 1)
       IN  S \cup {Append(s, x) : s \in {q \in S : Len(q) = n - 1}, x \in Bytes}

\* The slices a caller may pass.
Slices == SeqsUpTo(MaxLen)

Min(a, b) == IF a < b THEN a ELSE b

Take(s, k) == SubSeq(s, 1, k)
Drop(s, k) == SubSeq(s, k + 1, Len(s))

\* Option<Duration>: None, Some(Duration::ZERO), Some(d) with d > 0.
Timeouts == {"None", "Zero", "Some"}

VARIABLES
  mode,      \* "loopback" or "pair": which constructor built the endpoints
  capacity,  \* the buffer_capacity the constructor was given
  cap,       \* cap[b]: VecDeque::capacity() of buffer b
  data,      \* data[b]: the VecDeque<u8> of buffer b, head first
  timeout,   \* timeout[c]: the value in timeout cell c
  pipes,     \* pipes[t]: the MockPipe handle thread t owns
  th,        \* th[t]: where thread t is in its call
  accepted,  \* history: accepted[b], all bytes write calls put into b, in lock order
  consumed,  \* history: consumed[b], all bytes reads returned or clears discarded
  last       \* history: the call that returned in the step just taken, if any

vars == <<mode, capacity, cap, data, timeout, pipes, th, accepted, consumed, last>>

\* ------------------------------------------------------ construction
\* VecDeque::with_capacity(n).capacity(): the allocation is exactly the
\* requested one for u8, and no operation of SyncBuffer pushes past it.
with_capacity(n) == n

\* SyncBuffer::new: an empty deque of the given capacity.
new(n) == [data |-> <<>>, cap |-> with_capacity(n)]

\* The timeout from_buffers stores: Some(Duration::ZERO), non-blocking.
DefaultTimeout == "Zero"

\* MockPipe::from_buffers: the handle; the timeout cell is a fresh Arc.
from_buffers(read_buffer, write_buffer, cell) ==
  [read_buffer |-> read_buffer, write_buffer |-> write_buffer, timeout |-> cell]

\* Mutant: the endpoint writes to another buffer than the one it reads.
loopback_split(buffer) == from_buffers(buffer, buffer + 1, 1)

\* MockPipe::loopback: one buffer, read and written by the same endpoint.
loopback(buffer) == from_buffers(buffer, buffer, 1)

\* Mutant: the second endpoint is wired like the first.
pair_uncrossed(buffer1, buffer2) ==
  <<from_buffers(buffer1, buffer2, 1), from_buffers(buffer1, buffer2, 2)>>

\* MockPipe::pair: two buffers, cross-wired.
pair(buffer1, buffer2) ==
  <<from_buffers(buffer1, buffer2, 1), from_buffers(buffer2, buffer1, 2)>>

\* #[derive(Clone)] and thread::spawn(move ..): the handle of thread t.  In pair
\* mode odd threads hold (clones of) pipe1 and even threads (clones of) pipe2.
HandleOf(m, t) ==
  IF m = "loopback" THEN loopback(1)
  ELSE pair(1, 2)[IF t % 2 = 1 THEN 1 ELSE 2]

BuffersOf(m) == IF m = "loopback" THEN {1} ELSE {1, 2}
CellsOf(m) == IF m = "loopback" THEN {1} ELSE {1, 2}

\* A thread outside any call.
Idle == [pc |-> "idle", op |-> "none", n |-> 0, tmo |-> "Zero",
         expired |-> FALSE, xop |-> "none", xrem |-> 0]

NoCall == [t |-> 0, op |-> "none", b |-> 0, n |-> 0, src |-> <<>>, tmo |-> "Zero",
           kind |-> "none", ret |-> 0, bytes |-> <<>>, pre |-> <<>>,
           xop |-> "none", xkind |-> "none", woke |-> {}]

\* The record kept of a returned call.
Returned(ev) == ev

\* The state after `MockPipe::loopback(c)` or `MockPipe::pair(c)`, with the
\* handles (clones) moved to the threads T.
SetupThreads(T, m, c) ==
    /\ mode = m
    /\ capacity = c
    /\ cap = [b \in BuffersOf(m) |-> new(c).cap]
    /\ data = [b \in BuffersOf(m) |-> new(c).data]
    /\ timeout = [x \in CellsOf(m) |-> DefaultTimeout]
    /\ pipes = [t \in T |-> HandleOf(m, t)]
    /\ th = [t \in T |-> Idle]
    /\ accepted = [b \in BuffersOf(m) |-> <<>>]
    /\ consumed = [b \in BuffersOf(m) |-> <<>>]
    /\ last = NoCall

Setup(m, c) == SetupThreads(Threads, m, c)

\* One loopback endpoint and its clone: two threads on one buffer.
Init == \E c \in 0 .. MaxCap : Setup("loopback", c)

\* The two endpoints of a pair, one thread each.
InitPair == \E c \in 0 .. MaxCap : Setup("pair", c)

\* One loopback endpoint and two clones: three threads contend on one buffer
\* of positive capacity.
Clones == {1, 2, 3}
InitShared == \E c \in 1 .. MaxCap : SetupThreads(Clones, "loopback", c)

\* ------------------------------------------------------- SyncBuffer
\* The condition variable a blocked call of kind op sleeps on: read waits on
\* can_read, write on can_write, and flush on can_write too.
condvar(op) == IF op = "read" THEN "can_read" ELSE "can_write"

\* The buffer a call of kind op by thread t works on (MockPipe's delegation).
BufOf(t, op) ==
  IF op = "read" THEN pipes[t].read_buffer ELSE pipes[t].write_buffer

\* The threads blocked in Condvar::wait on condition variable cv of buffer b.
Waiters(b, cv) ==
  {u \in DOMAIN th : /\ th[u].pc = "waiting"
                   /\ condvar(th[u].op) = cv
                   /\ BufOf(u, th[u].op) = b}

\* Mutant: the notification is left out.
notify_nobody(b, cv) == {{}}

\* Condvar::notify_one: wakes one blocked thread, if there is one.
notify_one(b, cv) ==
  IF Waiters(b, cv) = {} THEN {{}} ELSE {{w} : w \in Waiters(b, cv)}

\* Condvar::notify_all: wakes every blocked thread.
notify_all(b, cv) == {Waiters(b, cv)}

\* Mutant: the free space computed without subtracting the queue length.
get_bytes_available_no_len(op, b) ==
  IF op = "read" THEN Len(data[b]) ELSE cap[b]

\* The closures read and write pass as get_bytes_available.
get_bytes_available(op, b) ==
  IF op = "read" THEN Len(data[b]) ELSE cap[b] - Len(data[b])

\* The closure handed to wait_while: "still has to wait".
condition(op, b) ==
  IF op = "flush" THEN data[b] # <<>> ELSE get_bytes_available(op, b) = 0

\* Mutant: a zero timeout is treated like any other bounded timeout.
wait_while_zero_waits(tmo, cond, expired) ==
  IF ~cond THEN "go"
  ELSE IF tmo # "None" /\ expired THEN "timedout"
  ELSE "wait"

\* Mutant: the timed_out() result of the wait is ignored.
wait_while_ignores_timed_out(tmo, cond, expired) ==
  IF ~cond THEN "go"
  ELSE IF tmo = "Zero" THEN "go"
  ELSE IF tmo = "Some" /\ expired THEN "go"
  ELSE "wait"

\* Mutant: the clock is looked at before the condition.
wait_while_clock_first(tmo, cond, expired) ==
  IF tmo = "Some" /\ expired THEN "timedout"
  ELSE IF ~cond THEN "go"
  ELSE IF tmo = "Zero" THEN "go"
  ELSE "wait"

\* SyncBuffer::wait_while, one evaluation under the lock: "go" (the guard is
\* returned), "wait" (the thread sleeps on the condition variable) or
\* "timedout".  expired says whether the deadline of a bounded wait has passed
\* when Condvar::wait_timeout_while looks at the clock.
wait_while(tmo, cond, expired) ==
  IF ~cond THEN "go"
  ELSE IF tmo = "Zero" THEN "go"
  ELSE IF tmo = "Some" /\ expired THEN "timedout"
  ELSE "wait"

\* Mutant: no early return for a zero-length request.
wait_for_bytes_available_no_len_check(op, b, bytes_required, tmo, expired) ==
  IF cap[b] = 0 THEN [o |-> "go", k |-> 0]
  ELSE LET w == wait_while(tmo, condition(op, b), expired)
       IN  [o |-> w,
            k |-> IF w = "go" THEN Min(bytes_required, get_bytes_available(op, b))
                  ELSE 0]

\* Mutant: no early return for a zero-capacity buffer.
wait_for_bytes_available_no_cap_check(op, b, bytes_required, tmo, expired) ==
  IF bytes_required = 0 THEN [o |-> "go", k |-> 0]
  ELSE LET w == wait_while(tmo, condition(op, b), expired)
       IN  [o |-> w,
            k |-> IF w = "go" THEN Min(bytes_required, get_bytes_available(op, b))
                  ELSE 0]

\* SyncBuffer::wait_for_bytes_available: the outcome and, when the guard is
\* returned, the byte count to transfer.
wait_for_bytes_available(op, b, bytes_required, tmo, expired) ==
  IF bytes_required = 0 \/ cap[b] = 0 THEN [o |-> "go", k |-> 0]
  ELSE LET w == wait_while(tmo, condition(op, b), expired)
       IN  [o |-> w,
            k |-> IF w = "go" THEN Min(bytes_required, get_bytes_available(op, b))
                  ELSE 0]

\* SyncBuffer::flush up to the guard: the same wait, nothing to transfer.
flush_wait(b, tmo, expired) ==
  [o |-> wait_while(tmo, condition("flush", b), expired), k |-> 0]

\* Mutant: the read drains the whole queue instead of k bytes.
pop_front_all(q, k) == <<>>

\* The deque after read popped k bytes off the front.
pop_front(q, k) == Drop(q, k)

\* The bytes read copied into buf[0..k].
popped(q, k) == Take(q, k)

\* Mutant: the first byte of the write lands before the newest queued byte, as
\* when two writes push their bytes in turns.
extend_interleaved(q, buf, k) ==
  IF q = <<>> \/ k = 0 THEN q \o Take(buf, k)
  ELSE Take(q, Len(q) - 1) \o <<buf[1]>> \o <<q[Len(q)]>>
         \o SubSeq(buf, 2, k)

\* Mutant: the write pushes its bytes in front of the queued ones.
extend_front(q, buf, k) == Take(buf, k) \o q

\* Mutant: the write appends all of buf, not only buf[0..k].
extend_all(q, buf, k) == q \o buf

\* The deque after write extended it with buf[0..k].
extend(q, buf, k) == q \o Take(buf, k)

\* SyncBuffer::len, as MockPipe exposes it.
read_buffer_len(t) == Len(data[pipes[t].read_buffer])
write_buffer_len(t) == Len(data[pipes[t].write_buffer])

\* MockPipe::timeout.
timeout_of(t) == timeout[pipes[t].timeout]

\* ------------------------------------------------------ call returns
\* The thread after its SyncBuffer call returned (kind, ret): a plain call is
\* over; io::Read::read_exact and io::Write::write_all loop on the rest of
\* their buffer or end.
AfterReturn(t, kind, ret) ==
  LET x == th[t].xop
      left == th[t].xrem - ret
  IN  IF x = "none" \/ kind # "Ok" \/ ret = 0 \/ left = 0 THEN Idle
      ELSE [Idle EXCEPT !.pc = "again", !.xop = x, !.xrem = left]

\* What the exact-count wrapper returns, "pending" while it loops: read_exact
\* breaks on Ok(0) and reports UnexpectedEof, write_all reports WriteZero, and
\* both pass an error of the inner call on.
WrapperKind(t, kind, ret) ==
  LET x == th[t].xop
  IN  IF x = "none" THEN "none"
      ELSE IF kind # "Ok" THEN kind
      ELSE IF ret = 0 THEN (IF x = "read_exact" THEN "UnexpectedEof" ELSE "WriteZero")
      ELSE IF th[t].xrem - ret = 0 THEN "Ok"
      ELSE "pending"

Wake(f, W) ==
  [u \in DOMAIN f |-> IF u \in W THEN [f[u] EXCEPT !.pc = "woken"] ELSE f[u]]

\* ------------------------------------------------- the writers' budget
RECURSIVE SumLen(_, _)
SumLen(f, S) ==
  IF S = {} THEN 0
  ELSE LET x == CHOOSE y \in S : TRUE IN Len(f[x]) + SumLen(f, S \ {x})

\* The bytes thread u has offered to a write that has not returned yet.
Pending(u) ==
  IF th[u].xop = "write_all" THEN th[u].xrem
  ELSE IF th[u].op = "write" THEN th[u].n
  ELSE 0

RECURSIVE SumPending(_)
SumPending(S) ==
  IF S = {} THEN 0
  ELSE LET u == CHOOSE y \in S : TRUE IN Pending(u) + SumPending(S \ {u})

\* How many bytes thread t may still offer.
Budget(t) ==
  MaxOffered - SumLen(accepted, DOMAIN accepted) - SumPending(DOMAIN th \ {t})

\* --------------------------------------------------------- actions
\* impl io::Read for MockPipe, read: `self.timeout()` is evaluated first (its own
\* lock on the timeout cell), then SyncBuffer::read is entered.
CallRead(t) ==
  /\ th[t].pc = "idle"
  /\ th' = [th EXCEPT ![t] = [Idle EXCEPT !.pc = "called", !.op = "read",
                                          !.tmo = timeout_of(t)]]
  /\ last' = NoCall
  /\ UNCHANGED <<mode, capacity, cap, data, timeout, pipes, accepted, consumed>>

\* impl io::Write for MockPipe, write.
CallWrite(t) ==
  /\ th[t].pc = "idle"
  /\ th' = [th EXCEPT ![t] = [Idle EXCEPT !.pc = "called", !.op = "write",
                                          !.tmo = timeout_of(t)]]
  /\ last' = NoCall
  /\ UNCHANGED <<mode, capacity, cap, data, timeout, pipes, accepted, consumed>>

\* io::Read::read_exact(buf) with buf.len() = n: loops over read while the
\* rest of buf is not empty; an empty buf is Ok(()) without any read.
CallReadExact(t, n) ==
  /\ th[t].pc = "idle"
  /\ IF n = 0
     THEN /\ last' = Returned([NoCall EXCEPT !.t = t, !.xop = "read_exact",
                                             !.xkind = "Ok"])
          /\ th' = th
     ELSE /\ th' = [th EXCEPT ![t] = [Idle EXCEPT !.pc = "called", !.op = "read",
                                        !.tmo = timeout_of(t),
                                        !.xop = "read_exact", !.xrem = n]]
          /\ last' = NoCall
  /\ UNCHANGED <<mode, capacity, cap, data, timeout, pipes, accepted, consumed>>

\* io::Write::write_all(buf) with buf.len() = n: loops over write while the
\* rest of buf is not empty; an empty buf is Ok(()) without any write.  The
\* bytes of buf are drawn when write looks at them.
CallWriteAll(t, n) ==
  /\ th[t].pc = "idle"
  /\ n <= Budget(t)
  /\ IF n = 0
     THEN /\ last' = Returned([NoCall EXCEPT !.t = t, !.xop = "write_all",
                                             !.xkind = "Ok"])
          /\ th' = th
     ELSE /\ th' = [th EXCEPT ![t] = [Idle EXCEPT !.pc = "called", !.op = "write",
                                        !.tmo = timeout_of(t),
                                        !.xop = "write_all", !.xrem = n]]
          /\ last' = NoCall
  /\ UNCHANGED <<mode, capacity, cap, data, timeout, pipes, accepted, consumed>>

\* The next round of read_exact / write_all: read or write is called again on
\* the rest of buf, with the timeout the cell holds now.
Again(t) ==
  /\ th[t].pc = "again"
  /\ th' = [th EXCEPT ![t] = [@ EXCEPT !.pc = "called",
                                !.op = IF th[t].xop = "read_exact" THEN "read"
                                       ELSE "write",
                                !.tmo = timeout_of(t)]]
  /\ last' = NoCall
  /\ UNCHANGED <<mode, capacity, cap, data, timeout, pipes, accepted, consumed>>

\* What a SyncBuffer call that returns leaves behind: the record of the call;
\* woke, the threads its notify_one / notify_all woke, is filled in by the
\* caller.
Event(t, op, tmo, n, src, kind, ret, bytes) ==
  [t |-> t, op |-> op, b |-> BufOf(t, op), n |-> n, src |-> src,
   tmo |-> tmo, kind |-> kind, ret |-> ret, bytes |-> bytes,
   pre |-> data[BufOf(t, op)],
   xop |-> th[t].xop, xkind |-> WrapperKind(t, kind, ret), woke |-> {}]

\* SyncBuffer::read from the guard on: bytes_to_read = k bytes are popped and
\* one thread waiting for space is notified, if k > 0.
read(t, b, tmo, n, kind, k) ==
  LET ev == Event(t, "read", tmo, n, <<>>, kind, k, popped(data[b], k))
  IN  /\ IF k > 0
         THEN /\ data' = [data EXCEPT ![b] = pop_front(@, k)]
              /\ consumed' = [consumed EXCEPT ![b] = @ \o popped(data[b], k)]
              /\ \E W \in notify_one(b, "can_write") :
                   /\ th' = Wake([th EXCEPT ![t] = AfterReturn(t, kind, k)], W)
                   /\ last' = Returned([ev EXCEPT !.woke = W])
         ELSE /\ th' = [th EXCEPT ![t] = AfterReturn(t, kind, k)]
              /\ last' = Returned(ev)
              /\ UNCHANGED <<data, consumed>>
      /\ accepted' = accepted

\* SyncBuffer::write from the guard on: bytes_to_write = k bytes of buf are
\* appended and one thread waiting for data is notified, if k > 0.
write(t, b, tmo, n, kind, k) ==
  \E src \in {q \in Slices : Len(q) = n} :
    LET ev == Event(t, "write", tmo, n, src, kind, k, <<>>)
    IN  /\ IF k > 0
           THEN /\ data' = [data EXCEPT ![b] = extend(@, src, k)]
                /\ accepted' = [accepted EXCEPT ![b] = @ \o Take(src, k)]
                /\ \E W \in notify_one(b, "can_read") :
                     /\ th' = Wake([th EXCEPT ![t] = AfterReturn(t, kind, k)], W)
                     /\ last' = Returned([ev EXCEPT !.woke = W])
           ELSE /\ th' = [th EXCEPT ![t] = AfterReturn(t, kind, k)]
                /\ last' = Returned(ev)
                /\ UNCHANGED <<data, accepted>>
        /\ consumed' = consumed

\* SyncBuffer::flush from the guard on: nothing is transferred or notified.
flush(t, b, tmo, kind) ==
  /\ last' = Returned(Event(t, "flush", tmo, 0, <<>>, kind, 0, <<>>))
  /\ th' = [th EXCEPT ![t] = AfterReturn(t, kind, 0)]
  /\ UNCHANGED <<data, accepted, consumed>>

\* One critical section of SyncBuffer::read / write / flush by thread t with
\* buf.len() = n: from taking the mutex to returning, or to sleeping on the
\* condition variable.  (A thread that sleeps has passed the early return of
\* wait_for_bytes_available, whose test cannot change while it sleeps.)
Section(t, op, tmo, n, expired) ==
  LET b == BufOf(t, op)
      r == IF op = "flush" THEN flush_wait(b, tmo, expired)
           ELSE wait_for_bytes_available(op, b, n, tmo, expired)
      kind == IF r.o = "timedout" THEN "TimedOut" ELSE "Ok"
  IN  IF r.o = "wait"
      THEN /\ th' = [th EXCEPT ![t] = [@ EXCEPT !.pc = "waiting", !.op = op,
                                         !.tmo = tmo, !.n = n,
                                         !.expired = expired]]
           /\ last' = NoCall
           /\ UNCHANGED <<data, accepted, consumed>>
      ELSE IF op = "read" THEN read(t, b, tmo, n, kind, r.k)
      ELSE IF op = "write" THEN write(t, b, tmo, n, kind, r.k)
      ELSE flush(t, b, tmo, kind)

\* The first critical section of a call.  A plain read or write gets its
\* buffer length here; read_exact and write_all pass the rest of theirs.  A
\* bounded wait may find its deadline passed at its first look at the clock.
Enter(t) ==
  /\ th[t].pc = "called"
  /\ \E e \in (IF th[t].tmo = "Some" THEN BOOLEAN ELSE {FALSE}) :
       IF th[t].xop # "none" THEN Section(t, th[t].op, th[t].tmo, th[t].xrem, e)
       ELSE IF th[t].op = "read"
       THEN \E n \in 0 .. MaxLen : Section(t, "read", th[t].tmo, n, e)
       ELSE \E n \in 0 .. MaxLen :
              n <= Budget(t) /\ Section(t, "write", th[t].tmo, n, e)
  /\ UNCHANGED <<mode, capacity, cap, timeout, pipes>>

\* Mutant: flush passes the endpoint's timeout on, as read and write do.
Flush_with_timeout(t) ==
  /\ th[t].pc = "idle"
  /\ Section(t, "flush", timeout_of(t), 0, FALSE)
  /\ UNCHANGED <<mode, capacity, cap, timeout, pipes>>

\* impl io::Write for MockPipe, flush: `self.write_buffer.flush(None)`, whatever
\* the endpoint's timeout is; its first critical section.
Flush(t) ==
  /\ th[t].pc = "idle"
  /\ Section(t, "flush", "None", 0, FALSE)
  /\ UNCHANGED <<mode, capacity, cap, timeout, pipes>>

\* Mutant: the wait is an `if`, not a loop: a woken thread goes on without
\* evaluating the condition again.
Recheck_goes_on(t) ==
  /\ th[t].pc = "woken"
  /\ LET op == th[t].op
         b == BufOf(t, op)
         k == Min(th[t].n, get_bytes_available(op, b))
     IN  IF op = "read" THEN read(t, b, th[t].tmo, th[t].n, "Ok", k)
         ELSE IF op = "write" THEN write(t, b, th[t].tmo, th[t].n, "Ok", k)
         ELSE flush(t, b, th[t].tmo, "Ok")
  /\ UNCHANGED <<mode, capacity, cap, timeout, pipes>>

\* Mutant: the wait looks the timeout up again each time it wakes.
Recheck_resamples(t) ==
  /\ th[t].pc = "woken"
  /\ Section(t, th[t].op,
             IF th[t].op = "flush" THEN "None" ELSE timeout_of(t),
             th[t].n, th[t].expired)
  /\ UNCHANGED <<mode, capacity, cap, timeout, pipes>>

\* A woken thread has the mutex again and Condvar::wait_while /
\* wait_timeout_while evaluates the condition (and the clock) once more.
Recheck(t) ==
  /\ th[t].pc = "woken"
  /\ Section(t, th[t].op, th[t].tmo, th[t].n, th[t].expired)
  /\ UNCHANGED <<mode, capacity, cap, timeout, pipes>>

\* The deadline of a bounded wait passes: a sleeping thread wakes up.
Expire(t) ==
  /\ th[t].pc \in {"waiting", "woken"}
  /\ th[t].tmo = "Some"
  /\ ~th[t].expired
  /\ th' = [th EXCEPT ![t] = [@ EXCEPT !.pc = "woken", !.expired = TRUE]]
  /\ last' = NoCall
  /\ UNCHANGED <<mode, capacity, cap, data, timeout, pipes, accepted, consumed>>

\* Condvar::wait may return without a notification.
Spurious(t) ==
  /\ th[t].pc = "waiting"
  /\ th' = [th EXCEPT ![t] = [@ EXCEPT !.pc = "woken"]]
  /\ last' = NoCall
  /\ UNCHANGED <<mode, capacity, cap, data, timeout, pipes, accepted, consumed>>

\* Mutant: clear notifies both condition variables.
clear_notifies_both(t, b, what, xop, xkind, next) ==
  /\ data' = [data EXCEPT ![b] = <<>>]
  /\ consumed' = [consumed EXCEPT ![b] = @ \o data[b]]
  /\ LET W == Waiters(b, "can_write") \cup Waiters(b, "can_read")
     IN  /\ th' = Wake([th EXCEPT ![t] = next], W)
         /\ last' = Returned([NoCall EXCEPT !.t = t, !.op = what, !.b = b,
                                            !.kind = "Ok", !.pre = data[b],
                                            !.xop = xop, !.xkind = xkind,
                                            !.woke = W])
  /\ UNCHANGED <<mode, capacity, cap, timeout, pipes, accepted>>

\* Mutant: clear notifies the threads waiting for data, not those waiting for
\* space.
clear_notifies_readers(t, b, what, xop, xkind, next) ==
  /\ data' = [data EXCEPT ![b] = <<>>]
  /\ consumed' = [consumed EXCEPT ![b] = @ \o data[b]]
  /\ \E W \in notify_all(b, "can_read") :
       /\ th' = Wake([th EXCEPT ![t] = next], W)
       /\ last' = Returned([NoCall EXCEPT !.t = t, !.op = what, !.b = b,
                                          !.kind = "Ok", !.pre = data[b],
                                          !.xop = xop, !.xkind = xkind,
                                          !.woke = W])
  /\ UNCHANGED <<mode, capacity, cap, timeout, pipes, accepted>>

\* SyncBuffer::clear on buffer b by thread t, called as `what`; the thread goes
\* on as `next`.
clear(t, b, what, xop, xkind, next) ==
  /\ data' = [data EXCEPT ![b] = <<>>]
  /\ consumed' = [consumed EXCEPT ![b] = @ \o data[b]]
  /\ \E W \in notify_all(b, "can_write") :
       /\ th' = Wake([th EXCEPT ![t] = next], W)
       /\ last' = Returned([NoCall EXCEPT !.t = t, !.op = what, !.b = b,
                                          !.kind = "Ok", !.pre = data[b],
                                          !.xop = xop, !.xkind = xkind,
                                          !.woke = W])
  /\ UNCHANGED <<mode, capacity, cap, timeout, pipes, accepted>>

\* MockPipe::clear_read.
ClearRead(t) ==
  /\ th[t].pc = "idle"
  /\ clear(t, pipes[t].read_buffer, "clear_read", "none", "none", Idle)

\* MockPipe::clear_write.
ClearWrite(t) ==
  /\ th[t].pc = "idle"
  /\ clear(t, pipes[t].write_buffer, "clear_write", "none", "none", Idle)

\* MockPipe::clear: clear_read, then clear_write, each its own critical section.
ClearFirst(t) ==
  /\ th[t].pc = "idle"
  /\ clear(t, pipes[t].read_buffer, "clear_read", "clear", "pending",
           [Idle EXCEPT !.pc = "clear2"])

ClearSecond(t) ==
  /\ th[t].pc = "clear2"
  /\ clear(t, pipes[t].write_buffer, "clear_write", "clear", "Ok", Idle)

\* Mutant: the timeout is one value for all endpoints.
SetTimeout_every_cell(t, v) ==
  /\ th[t].pc = "idle"
  /\ timeout' = [c \in DOMAIN timeout |-> v]
  /\ last' = NoCall
  /\ UNCHANGED <<mode, capacity, cap, data, pipes, th, accepted, consumed>>

\* MockPipe::set_timeout (and with_timeout, which calls it).
SetTimeout(t, v) ==
  /\ th[t].pc = "idle"
  /\ timeout' = [timeout EXCEPT ![pipes[t].timeout] = v]
  /\ last' = NoCall
  /\ UNCHANGED <<mode, capacity, cap, data, pipes, th, accepted, consumed>>

\* The calls without the exact-count wrappers.
Next ==
  \/ \E t \in DOMAIN th : CallRead(t)
  \/ \E t \in DOMAIN th : CallWrite(t)
  \/ \E t \in DOMAIN th : Flush(t)
  \/ \E t \in DOMAIN th : Enter(t)
  \/ \E t \in DOMAIN th : Recheck(t)
  \/ \E t \in DOMAIN th : Expire(t)
  \/ \E t \in DOMAIN th : Spurious(t)
  \/ \E t \in DOMAIN th : ClearRead(t)
  \/ \E t \in DOMAIN th : ClearWrite(t)
  \/ \E t \in DOMAIN th : ClearFirst(t)
  \/ \E t \in DOMAIN th : ClearSecond(t)
  \/ \E t \in DOMAIN th, v \in Timeouts : SetTimeout(t, v)

\* The calls with io::Read::read_exact and io::Write::write_all.
NextExact ==
  \/ Next
  \/ \E t \in DOMAIN th, n \in 0 .. MaxLen : CallReadExact(t, n)
  \/ \E t \in DOMAIN th, n \in 0 .. MaxLen : CallWriteAll(t, n)
  \/ \E t \in DOMAIN th : Again(t)

Spec == Init /\ [][Next]_vars

SpecPair == InitPair /\ [][Next]_vars

SpecExact == Init /\ [][NextExact]_vars

\* Three threads on one buffer that read, write and flush, without or with
\* the indefinite timeout; no wait returns without a notification.
NextShared ==
  \/ \E t \in DOMAIN th : CallRead(t)
  \/ \E t \in DOMAIN th : CallWrite(t)
  \/ \E t \in DOMAIN th : Flush(t)
  \/ \E t \in DOMAIN th : Enter(t)
  \/ \E t \in DOMAIN th : Recheck(t)
  \/ \E t \in DOMAIN th : SetTimeout(t, "None")

\* A thread that called, or was notified, gets the mutex.
FairnessShared ==
  \A t \in Clones : WF_vars(Enter(t)) /\ WF_vars(Recheck(t))

SpecShared == InitShared /\ [][NextShared]_vars /\ FairnessShared

\* ------------------------------------------- a pair and a clone
\* The two endpoints of a pair and a clone of the first: threads 1 and 3 hold
\* clones of endpoint A, thread 2 holds endpoint B.
InitClones == \E c \in 1 .. MaxCap : SetupThreads(Clones, "pair", c)

\* Every thread sets the timeout of its handle; the two clones of endpoint A
\* read and write.
NextClones ==
  \/ \E t \in DOMAIN th, v \in Timeouts : SetTimeout(t, v)
  \/ \E t \in {1, 3} : CallRead(t)
  \/ \E t \in {1, 3} : CallWrite(t)
  \/ \E t \in DOMAIN th : Enter(t)
  \/ \E t \in DOMAIN th : Recheck(t)
  \/ \E t \in DOMAIN th : Expire(t)

SpecClones == InitClones /\ [][NextClones]_vars

\* ------------------------------------ one producer and one consumer
\* tests::test_multiple_threads and examples/pair_with_threads.rs: thread 1
\* owns endpoint A of a pair of positive capacity and thread 2 endpoint B; both
\* first choose the indefinite timeout.
InitSpsc == \E c \in 1 .. MaxCap : Setup("pair", c)

\* `pipe.set_timeout(None)`, once.
SetNone(t) ==
  /\ timeout_of(t) = "Zero"
  /\ SetTimeout(t, "None")

\* The bytes the producer has written or is writing.
Committed == Len(accepted[pipes[1].write_buffer]) + Pending(1)

\* The producer: `pipe1.write_all(data)` with data.len() = n >= 1.
Produce(n) ==
  /\ timeout_of(1) = "None"
  /\ CallWriteAll(1, n)

\* The producer: `pipe1.flush()`.
ProducerFlush ==
  /\ timeout_of(1) = "None"
  /\ Flush(1)

\* The consumer: `pipe2.read_exact(buf)` with buf.len() = n >= 1, for bytes the
\* producer has written or is writing.
Consume(n) ==
  /\ timeout_of(2) = "None"
  /\ Len(consumed[pipes[2].read_buffer]) + n <= Committed
  /\ CallReadExact(2, n)

NextSpsc ==
  \/ \E t \in DOMAIN th : SetNone(t)
  \/ \E n \in 1 .. MaxLen : Produce(n)
  \/ ProducerFlush
  \/ \E n \in 1 .. MaxLen : Consume(n)
  \/ \E t \in DOMAIN th : Again(t)
  \/ \E t \in DOMAIN th : Enter(t)
  \/ \E t \in DOMAIN th : Recheck(t)
  \/ \E t \in DOMAIN th : Spurious(t)

\* Both threads run: each sets its timeout, a thread inside a call gets the
\* mutex, and the consumer goes on reading while bytes are left for it.
FairnessSpsc ==
  /\ \A t \in Threads :
       /\ WF_vars(SetNone(t))
       /\ WF_vars(Again(t))
       /\ WF_vars(Enter(t))
       /\ WF_vars(Recheck(t))
  /\ WF_vars(\E n \in 1 .. MaxLen : Consume(n))

SpecSpsc == InitSpsc /\ [][NextSpsc]_vars /\ FairnessSpsc

\* The timer of a bounded wait fires, and a woken thread gets the mutex: each
\* critical section is finite, so the mutex is released again and again.
Fairness ==
  \A t \in Threads : WF_vars(Expire(t)) /\ WF_vars(Recheck(t))

SpecLive == Init /\ [][Next]_vars /\ Fairness

\* ----------------------------------------------------------- claims
\* The call that returned in the step just taken was a SyncBuffer::read/write.
Returned_read == last.op = "read"
Returned_write == last.op = "write"

\* C1. Capacity invariant: in every reachable state, whatever the interleaving
\* of read, write, flush and clear by the threads and whatever the timeouts,
\* each buffer built with capacity C queues between 0 and C bytes, so the free
\* space capacity() - len() is never negative.
C1_CapacityInvariant ==
  \A b \in DOMAIN data :
    /\ Len(data[b]) >= 0
    /\ Len(data[b]) <= capacity
    /\ cap[b] - Len(data[b]) >= 0

\* A write was offered more bytes than the space left and filled the buffer.
C1_Witness ==
  /\ Returned_write
  /\ last.ret < last.n
  /\ last.ret > 0
  /\ capacity > 0
  /\ Len(data[last.b]) = capacity

\* C2. FIFO without loss or duplication: for each buffer, the bytes returned by
\* reads or discarded by clears (in lock order), followed by the bytes still
\* queued, are exactly the bytes the writes accepted, in order; the bytes a read
\* returns are the ones it took off that history; and a read that returns as
\* many bytes as were ever accepted returns exactly the writes' concatenation.
C2_Fifo ==
  /\ \A b \in DOMAIN data : consumed[b] \o data[b] = accepted[b]
  /\ Returned_read =>
       /\ Drop(consumed[last.b], Len(consumed[last.b]) - last.ret) = last.bytes
       /\ last.ret = Len(accepted[last.b]) => last.bytes = accepted[last.b]

\* Two one-byte writes into a buffer of capacity 1 were both read back, the
\* second read returning the second byte.
C2_Witness ==
  /\ Returned_read
  /\ capacity = 1
  /\ accepted[last.b] = <<0, 1>>
  /\ consumed[last.b] = <<0, 1>>
  /\ last.bytes = <<1>>

\* C4. Partial write: a write of n > 0 bytes that finds s > 0 bytes of free
\* space on a buffer of capacity > 0 returns Ok(min(n, s)), appends exactly the
\* first min(n, s) bytes of its source to the tail of the queue, in order, and
\* the queue grows by exactly that count.
C4_PartialWrite ==
  (/\ Returned_write
   /\ last.n > 0
   /\ cap[last.b] > 0
   /\ cap[last.b] - Len(last.pre) > 0)
  => LET s == cap[last.b] - Len(last.pre)
     IN  /\ last.kind = "Ok"
         /\ last.ret = Min(last.n, s)
         /\ data[last.b] = last.pre \o Take(last.src, Min(last.n, s))
         /\ Len(data[last.b]) = Len(last.pre) + last.ret

\* A write of two bytes found one byte of space and stored its first byte.
C4_Witness ==
  /\ Returned_write
  /\ last.n = 2
  /\ cap[last.b] - Len(last.pre) = 1
  /\ last.ret = 1
  /\ data[last.b] = last.pre \o <<last.src[1]>>

C3_Wired ==
  /\ pipes[1].write_buffer = pipes[2].read_buffer
  /\ pipes[2].write_buffer = pipes[1].read_buffer
  /\ write_buffer_len(1) = read_buffer_len(2)
  /\ write_buffer_len(2) = read_buffer_len(1)
  /\ Returned_write =>
       /\ last.b = pipes[3 - last.t].read_buffer
       /\ last.b # pipes[last.t].read_buffer
       /\ Take(data[last.b], Len(last.pre)) = last.pre
       /\ Drop(data[last.b], Len(last.pre)) = Take(last.src, last.ret)
  /\ Returned_read =>
       /\ last.b = pipes[3 - last.t].write_buffer
       /\ last.b # pipes[last.t].write_buffer

C3_Frame ==
  \A b \in DOMAIN data :
    data'[b] # data[b] => (last'.op # "none" /\ last'.b = b)

C3_PairingSymmetry == []C3_Wired /\ [][C3_Frame]_vars

\* A write on endpoint 1 was accepted while bytes written by endpoint 2 were
\* queued the other way: each endpoint has one byte to read.
C3_Witness ==
  /\ mode = "pair"
  /\ Returned_write
  /\ last.t = 1
  /\ last.ret = 1
  /\ read_buffer_len(2) = 1
  /\ read_buffer_len(1) = 1

\* C6. Loopback wiring: the endpoint (and its clone) reads the buffer it writes,
\* so read_buffer_len() = write_buffer_len() in every state; the bytes a write
\* accepts are the newest bytes of the queue the same endpoint reads; and a
\* read that returns as many bytes as were ever written returns exactly those
\* bytes and leaves read_buffer_len() = 0.
C6_Loopback ==
  /\ \A t \in DOMAIN pipes :
       /\ pipes[t].read_buffer = pipes[t].write_buffer
       /\ read_buffer_len(t) = write_buffer_len(t)
  /\ Returned_write =>
       /\ last.b = pipes[last.t].read_buffer
       /\ Drop(data[pipes[last.t].read_buffer], Len(last.pre))
            = Take(last.src, last.ret)
  /\ Returned_read =>
       /\ last.b = pipes[last.t].write_buffer
       /\ last.ret = Len(accepted[pipes[last.t].write_buffer]) =>
            /\ last.bytes = accepted[pipes[last.t].write_buffer]
            /\ read_buffer_len(last.t) = 0

\* Two bytes were written to the loopback and a read_exact of two bytes
\* returned them, leaving nothing to read.
C6_Witness ==
  /\ mode = "loopback"
  /\ last.xop = "read_exact"
  /\ last.xkind = "Ok"
  /\ last.n = 2
  /\ last.bytes = <<0, 1>>
  /\ accepted[last.b] = <<0, 1>>
  /\ read_buffer_len(last.t) = 0

\* C7. Non-blocking mode: an endpoint's timeout is Some(ZERO) by default; a
\* read or write that sampled Some(ZERO) never waits and never returns
\* TimedOut; on an empty buffer such a read, and on a full buffer such a
\* write, of at least one byte returns Ok(0) and leaves the queue as it was;
\* read_exact then fails with UnexpectedEof and write_all with WriteZero.
C7_DefaultZero == \A c \in DOMAIN timeout : timeout[c] = "Zero"

C7_NeverBlocks ==
  /\ \A t \in DOMAIN th :
       th[t].pc \in {"waiting", "woken"} => th[t].tmo # "Zero"
  /\ (last.op \in {"read", "write"} /\ last.tmo = "Zero") => last.kind = "Ok"
  /\ (Returned_read /\ last.tmo = "Zero" /\ last.n > 0 /\ last.pre = <<>>) =>
       /\ last.kind = "Ok"
       /\ last.ret = 0
       /\ data[last.b] = last.pre
       /\ last.xop = "read_exact" => last.xkind = "UnexpectedEof"
  /\ (Returned_write /\ last.tmo = "Zero" /\ last.n > 0
        /\ Len(last.pre) = cap[last.b]) =>
       /\ last.kind = "Ok"
       /\ last.ret = 0
       /\ data[last.b] = last.pre
       /\ last.xop = "write_all" => last.xkind = "WriteZero"

C8_NoOkZero ==
  (last.op \in {"read", "write"} /\ last.tmo = "Some" /\ last.n > 0
     /\ cap[last.b] > 0) =>
    /\ (Returned_read /\ last.pre = <<>>) => last.kind = "TimedOut"
    /\ (Returned_write /\ Len(last.pre) = cap[last.b]) => last.kind = "TimedOut"
    /\ last.kind = "Ok" => last.ret >= 1
    /\ last.kind \in {"Ok", "TimedOut"}

C8_Returns ==
  \A t \in Threads :
    (th[t].pc \in {"waiting", "woken"} /\ th[t].tmo = "Some")
      ~> (th[t].pc \notin {"waiting", "woken"})

C8_BoundedTimeout == []C8_NoOkZero /\ C8_Returns

\* A write of at least one byte to a full buffer of positive capacity timed
\* out under a bounded timeout.
C8_Witness ==
  /\ Returned_write
  /\ last.kind = "TimedOut"
  /\ last.tmo = "Some"
  /\ last.n > 0
  /\ cap[last.b] > 0
  /\ Len(last.pre) = cap[last.b]

\* C9. A call that returns TimedOut sampled a bounded timeout, transferred no
\* byte and left the queue as it was, and the condition it waited on still
\* held when it returned: the buffer was empty for a read, full for a write,
\* non-empty for a flush.
C9_TimedOutUnchanged ==
  last.kind = "TimedOut" =>
    /\ last.tmo = "Some"
    /\ last.ret = 0
    /\ last.bytes = <<>>
    /\ data[last.b] = last.pre
    /\ last.op = "read" => last.pre = <<>>
    /\ last.op = "write" => Len(last.pre) = cap[last.b]
    /\ last.op = "flush" => last.pre # <<>>

\* A read timed out on a buffer of positive capacity that another thread had
\* written to and a reader had emptied before.
C9_Witness ==
  /\ Returned_read
  /\ last.kind = "TimedOut"
  /\ cap[last.b] > 0
  /\ accepted[last.b] # <<>>
  /\ data[last.b] = <<>>

\* C10. Zero capacity: with capacity 0 the queue stays empty, no read or write
\* ever waits, and every read and write returns Ok(0) under every timeout;
\* write_all of at least one byte fails with WriteZero and read_exact of at
\* least one byte with UnexpectedEof.
C10_ZeroCapacity ==
  capacity = 0 =>
    /\ \A b \in DOMAIN data : cap[b] = 0 /\ data[b] = <<>>
    /\ \A t \in DOMAIN th :
         th[t].op \in {"read", "write"} => th[t].pc \notin {"waiting", "woken"}
    /\ last.op \in {"read", "write"} => (last.kind = "Ok" /\ last.ret = 0)
    /\ (last.xop = "write_all" /\ last.n > 0) => last.xkind = "WriteZero"
    /\ (last.xop = "read_exact" /\ last.n > 0) => last.xkind = "UnexpectedEof"

\* write_all failed with WriteZero on a zero-capacity buffer under the
\* indefinite timeout.
C10_Witness ==
  /\ capacity = 0
  /\ last.xop = "write_all"
  /\ last.xkind = "WriteZero"
  /\ last.tmo = "None"
  /\ last.n > 0

\* C11. Zero-length requests: a read into an empty destination and a write of
\* empty data return Ok(0) for every timeout and every buffer state; no such
\* call is ever waiting; and the step in which it returns leaves every queue
\* and every other thread as they were, so no waiter is signalled.
C11_ReturnsOkZero ==
  /\ (last.op \in {"read", "write"} /\ last.n = 0) =>
       /\ last.kind = "Ok"
       /\ last.ret = 0
       /\ last.bytes = <<>>
       /\ data[last.b] = last.pre
  /\ \A t \in DOMAIN th :
       (th[t].pc \in {"waiting", "woken"} /\ th[t].op \in {"read", "write"})
         => th[t].n > 0

C11_Frame ==
  (last'.op \in {"read", "write"} /\ last'.n = 0) =>
    /\ data' = data
    /\ accepted' = accepted
    /\ consumed' = consumed
    /\ last'.woke = {}
    /\ \A u \in DOMAIN th : u # last'.t => th'[u] = th[u]

C11_ZeroLength == []C11_ReturnsOkZero /\ [][C11_Frame]_vars

\* A zero-length read returned Ok(0) under the indefinite timeout on an empty
\* buffer of positive capacity while another reader stayed blocked on it.
C11_Witness ==
  /\ Returned_read
  /\ last.n = 0
  /\ last.tmo = "None"
  /\ last.pre = <<>>
  /\ cap[last.b] > 0
  /\ \E u \in DOMAIN th : th[u].pc = "waiting" /\ th[u].op = "read"

\* The call that returned in the step just taken was a SyncBuffer::clear.
Returned_clear == last.op \in {"clear_read", "clear_write"}

\* A writer that sleeps, or has been woken and not yet taken the mutex again.
BlockedWriter(u) == th[u].pc \in {"waiting", "woken"} /\ th[u].op = "write"

\* C12 as stated: clear() leaves both lengths 0 when nobody writes in between,
\* and every writer that was blocked for space on the cleared buffer is woken
\* and goes on to complete its write with at least one byte accepted.
C12_WriterCompletes ==
  \A u \in Threads :
    (Returned_clear /\ capacity > 0 /\ BlockedWriter(u) /\ u \in last.woke)
      ~> (Returned_write /\ last.t = u /\ last.kind = "Ok" /\ last.ret >= 1)

\* C12, amended. A SyncBuffer::clear leaves its queue empty; MockPipe::clear
\* returns with its write buffer empty, and with its read buffer empty too
\* unless a write was accepted into it after clear_read (an empty queue stays
\* empty in every step that accepts no write into it); the clear wakes every
\* writer that was sleeping for space on the cleared buffer; a woken writer
\* takes the mutex again and re-evaluates; and a write of at least one byte
\* whose critical section finds free space returns Ok(k), k >= 1.  A woken
\* writer that finds the buffer refilled by another writer waits again or
\* times out.
C12_Cleared ==
  /\ Returned_clear => data[last.b] = <<>>
  /\ (last.xop = "clear" /\ last.xkind = "Ok") =>
       (last.b = pipes[last.t].write_buffer /\ write_buffer_len(last.t) = 0)
  /\ (last.xop = "clear" /\ last.xkind = "pending") =>
       (last.b = pipes[last.t].read_buffer /\ read_buffer_len(last.t) = 0)
  /\ (Returned_write /\ last.n > 0 /\ Len(last.pre) < cap[last.b]) =>
       (last.kind = "Ok" /\ last.ret >= 1)

C12_StaysEmpty ==
  \A b \in DOMAIN data :
    (data[b] = <<>> /\ accepted'[b] = accepted[b]) => data'[b] = <<>>

C12_WakesWriters ==
  (last'.op \in {"clear_read", "clear_write"}) =>
    /\ last'.woke = Waiters(last'.b, "can_write")
    /\ \A u \in last'.woke : th'[u].pc = "woken"

C12_Rechecks ==
  \A u \in Threads : (th[u].pc = "woken") ~> (th[u].pc # "woken")

C12_ClearSemantics ==
  /\ []C12_Cleared
  /\ [][C12_StaysEmpty /\ C12_WakesWriters]_vars
  /\ C12_Rechecks

C12_Original == C12_ClearSemantics /\ C12_WriterCompletes

\* A clear emptied a full buffer of positive capacity and woke a writer that
\* was sleeping for space on it.
C12_Witness ==
  /\ Returned_clear
  /\ cap[last.b] > 0
  /\ Len(last.pre) = cap[last.b]
  /\ \E u \in last.woke :
       /\ th[u].pc = "woken"
       /\ th[u].op = "write"
       /\ BufOf(u, "write") = last.b

\* C13. Endpoint flush waits for drain regardless of timeout: a flush on an
\* endpoint returns Ok, never TimedOut, and only from a critical section that
\* finds its write buffer empty, whatever value the endpoint's timeout cell
\* holds; while it waits it waits indefinitely; so in the state in which it
\* returns write_buffer_len() is 0.
C13_FlushWaitsForDrain ==
  /\ last.op = "flush" =>
       /\ last.kind = "Ok"
       /\ last.tmo = "None"
       /\ last.b = pipes[last.t].write_buffer
       /\ last.pre = <<>>
       /\ write_buffer_len(last.t) = 0
  /\ \A t \in DOMAIN th :
       (th[t].op = "flush" /\ th[t].pc \in {"waiting", "woken"}) =>
         (th[t].tmo = "None" /\ ~th[t].expired)

\* A flush returned on an endpoint whose timeout is the default Some(ZERO),
\* after bytes had been written to its write buffer and taken out again.
C13_Witness ==
  /\ last.op = "flush"
  /\ timeout_of(last.t) = "Zero"
  /\ accepted[last.b] # <<>>
  /\ consumed[last.b] = accepted[last.b]

\* C14 as stated: no state is reachable in which a writer with the indefinite
\* timeout sleeps for space while the buffer has free space and every other
\* thread is idle or asleep too.
C14_NoLostWakeupForWriters ==
  \A u \in DOMAIN th :
    ~ /\ th[u].pc = "waiting"
      /\ th[u].op = "write"
      /\ th[u].tmo = "None"
      /\ cap[BufOf(u, "write")] - Len(data[BufOf(u, "write")]) > 0
      /\ \A v \in DOMAIN th : th[v].pc \in {"idle", "waiting"}

\* C15 as stated: no state is reachable in which a reader with the indefinite
\* timeout sleeps for data while the buffer holds at least one byte and every
\* other thread is idle or asleep too.
C15_NoLostWakeupForReaders ==
  \A u \in DOMAIN th :
    ~ /\ th[u].pc = "waiting"
      /\ th[u].op = "read"
      /\ th[u].tmo = "None"
      /\ Len(data[BufOf(u, "read")]) > 0
      /\ \A v \in DOMAIN th : th[v].pc \in {"idle", "waiting"}

\* C16. Single producer, single consumer on a pair of capacity C > 0, both
\* with the indefinite timeout: no call fails (write_all and read_exact never
\* return WriteZero, UnexpectedEof or TimedOut); read_exact returns the bytes
\* the producer wrote, in order, without loss or duplication; a flush on A
\* returns with A.write_buffer_len() = 0; every call of either thread returns;
\* and every byte written is received, also when N exceeds C.
C16_NoFailure ==
  /\ last.kind \in {"none", "Ok"}
  /\ last.xkind \in {"none", "Ok", "pending"}
  /\ \A b \in DOMAIN data : consumed[b] \o data[b] = accepted[b]
  /\ Returned_read =>
       Drop(consumed[last.b], Len(consumed[last.b]) - last.ret) = last.bytes
  /\ last.op = "flush" => write_buffer_len(1) = 0

C16_AllReceived ==
  /\ \A t \in Threads : th[t].pc = "idle"
  /\ consumed[pipes[2].read_buffer] = accepted[pipes[1].write_buffer]
  /\ write_buffer_len(1) = 0

C16_Terminates ==
  /\ \A t \in Threads : (th[t].pc # "idle") ~> (th[t].pc = "idle")
  /\ (Committed > 0) ~> C16_AllReceived

C16_SpscProgress == []C16_NoFailure /\ C16_Terminates

\* The last round of a read_exact returned: the consumer has received three
\* bytes through a buffer of capacity 1, all that the producer wrote.
C16_Witness ==
  /\ capacity = 1
  /\ last.xop = "read_exact"
  /\ last.xkind = "Ok"
  /\ Len(accepted[last.b]) = 3
  /\ consumed[last.b] = accepted[last.b]

\* Handles t and u are clones of one endpoint.
SameEndpoint(t, u) ==
  /\ pipes[t].read_buffer = pipes[u].read_buffer
  /\ pipes[t].write_buffer = pipes[u].write_buffer

\* C17. Timeout sharing: clones of an endpoint share its buffers and its
\* timeout cell, so timeout() agrees on all clones in every state; a
\* set_timeout(v) through a handle makes timeout() of every clone of that
\* endpoint return v and leaves timeout() of the other endpoint of the pair as
\* it was; and a read or write that starts uses the value timeout() returns
\* then.
C17_ClonesAgree ==
  \A t \in DOMAIN pipes, u \in DOMAIN pipes :
    IF SameEndpoint(t, u)
    THEN pipes[t].timeout = pipes[u].timeout /\ timeout_of(t) = timeout_of(u)
    ELSE pipes[t].timeout # pipes[u].timeout

C17_SetTimeout ==
  \A t \in DOMAIN th, v \in Timeouts :
    SetTimeout(t, v) =>
      \A u \in DOMAIN pipes :
        IF SameEndpoint(t, u) THEN timeout_of(u)' = v
        ELSE timeout_of(u)' = timeout_of(u)

C17_CallsUseIt ==
  \A t \in DOMAIN th :
    (th[t].pc = "idle" /\ th'[t].pc = "called") =>
      th'[t].tmo = timeout_of(t)

C17_TimeoutSharing ==
  []C17_ClonesAgree /\ [][C17_SetTimeout /\ C17_CallsUseIt]_vars

\* A read through the clone (thread 3) has started with the bounded timeout
\* both clones of endpoint A now hold, while endpoint B holds the indefinite
\* one and thread 1 is in a call it started under another value.
C17_Witness ==
  /\ th[3].pc = "called"
  /\ th[3].tmo = "Some"
  /\ timeout_of(1) = "Some"
  /\ timeout_of(3) = "Some"
  /\ timeout_of(2) = "None"
  /\ th[1].pc = "waiting"
  /\ th[1].tmo = "None"

\* Thread t is inside a SyncBuffer::read or SyncBuffer::write.
InReadWrite(t) ==
  /\ th[t].pc \in {"called", "waiting", "woken"}
  /\ th[t].op \in {"read", "write"}

\* C18. The timeout is sampled once per call: a read or write keeps, from its
\* start to its return, the wait mode it sampled when it started, whatever
\* set_timeout does to the cell meanwhile; a set_timeout step changes no thread
\* that is inside a call; and a call that starts samples the value the cell
\* holds then.
C18_KeepsMode ==
  \A t \in DOMAIN th :
    /\ (th[t].pc \in {"idle", "again"} /\ th'[t].pc = "called") =>
         th'[t].tmo = timeout_of(t)
    /\ InReadWrite(t) =>
         /\ InReadWrite(t)' => (th'[t].tmo = th[t].tmo /\ th'[t].op = th[t].op)
         /\ (last'.t = t /\ last'.op # "none") =>
              (last'.tmo = th[t].tmo /\ last'.op = th[t].op)
         /\ timeout' # timeout => th'[t] = th[t]

C18_ModeDecides ==
  /\ \A t \in DOMAIN th :
       (InReadWrite(t) /\ th[t].pc # "called") => th[t].tmo # "Zero"
  /\ last.kind = "TimedOut" => last.tmo = "Some"

C18_SampledOnce == []C18_ModeDecides /\ [][C18_KeepsMode]_vars

\* A read that started under a bounded timeout returned TimedOut although the
\* cell had been set to Some(ZERO) through the clone while it waited.
C18_Witness ==
  /\ Returned_read
  /\ last.kind = "TimedOut"
  /\ last.tmo = "Some"
  /\ timeout_of(last.t) = "Zero"

\* C19. A waiting call that succeeds makes progress: on a buffer of capacity
\* > 0, a read or write of at least one byte that sampled None or a bounded
\* non-zero timeout returns Ok(k) with 1 <= k <= n, or TimedOut (only under the
\* bounded timeout), never Ok(0), also when the woken thread finds that another
\* thread took the bytes or the space first; and it returns only from a
\* critical section that found bytes or space, or found the deadline passed.
C19_WaitingCallProgress ==
  (last.op \in {"read", "write"} /\ last.n > 0 /\ cap[last.b] > 0
     /\ last.tmo \in {"None", "Some"}) =>
    \/ /\ last.kind = "Ok"
       /\ last.ret >= 1
       /\ last.ret <= last.n
       /\ Returned_read => last.pre # <<>>
       /\ Returned_write => Len(last.pre) < cap[last.b]
    \/ /\ last.kind = "TimedOut"
       /\ last.tmo = "Some"
       /\ last.ret = 0

\* A read under the indefinite timeout returned one byte after an earlier read
\* had taken a byte from the same buffer.
C19_Witness ==
  /\ Returned_read
  /\ last.tmo = "None"
  /\ last.kind = "Ok"
  /\ last.ret = 1
  /\ cap[last.b] > 0
  /\ Len(consumed[last.b]) = 2

\* A reader with the indefinite timeout that sleeps, or was woken and has not
\* yet taken the mutex again.
BlockedReader(u) ==
  /\ th[u].pc \in {"waiting", "woken"}
  /\ th[u].op = "read"
  /\ th[u].tmo = "None"

\* C20. clear() wakes writers only: a clear notifies every thread sleeping on
\* can_write of its buffer and no thread sleeping on can_read, so it changes no
\* reader; a reader blocked under the indefinite timeout stays blocked in every
\* step that leaves its buffer empty, clears included, and returns only from a
\* critical section that finds bytes in the buffer, with at least one byte.
C20_ClearStep ==
  (last'.op \in {"clear_read", "clear_write"}) =>
    /\ \A u \in DOMAIN th :
         u \in last'.woke <=>
           (th[u].pc = "waiting" /\ th[u].op \in {"write", "flush"}
              /\ BufOf(u, th[u].op) = last'.b)
    /\ \A u \in DOMAIN th : th[u].op = "read" => th'[u] = th[u]

C20_ReaderStaysBlocked ==
  \A u \in DOMAIN th :
    (BlockedReader(u) /\ data'[BufOf(u, "read")] = <<>>
       /\ data[BufOf(u, "read")] = <<>>) => BlockedReader(u)'

C20_ReaderReturns ==
  (Returned_read /\ last.tmo = "None" /\ last.n > 0 /\ cap[last.b] > 0) =>
    (last.pre # <<>> /\ last.ret >= 1)

C20_ClearWakesWritersOnly ==
  []C20_ReaderReturns /\ [][C20_ClearStep /\ C20_ReaderStaysBlocked]_vars

\* A clear of the buffer on which a reader sleeps under the indefinite timeout
\* has returned, and the reader still sleeps.
C20_Witness ==
  /\ Returned_clear
  /\ last.woke = {}
  /\ \E u \in DOMAIN th :
       /\ th[u].pc = "waiting"
       /\ BlockedReader(u)
       /\ BufOf(u, "read") = last.b

\* C21. Write atomicity under contention: the bytes one write call accepts are
\* appended behind the queued bytes as one block, in source order, and are the
\* newest bytes of the acceptance history; the bytes one read call returns are
\* the oldest queued bytes, one contiguous run; the queue is always a suffix
\* of the acceptance history, so no block is ever split; and a queue changes
\* only in the single critical section of the call that returns in that step.
C21_OneBlock ==
  /\ Returned_write =>
       /\ data[last.b] = last.pre \o Take(last.src, last.ret)
       /\ Drop(accepted[last.b], Len(accepted[last.b]) - last.ret)
            = Take(last.src, last.ret)
  /\ Returned_read =>
       /\ last.bytes = Take(last.pre, last.ret)
       /\ data[last.b] = Drop(last.pre, last.ret)
  /\ \A b \in DOMAIN data :
       /\ Len(data[b]) <= Len(accepted[b])
       /\ Drop(accepted[b], Len(accepted[b]) - Len(data[b])) = data[b]

C21_OneSection ==
  \A b \in DOMAIN data :
    data'[b] # data[b] =>
      /\ last'.op \in {"read", "write"}
      /\ last'.b = b
      /\ last'.pre = data[b]
      /\ last'.ret > 0

C21_WriteAtomicity == []C21_OneBlock /\ [][C21_OneSection]_vars

\* A write appended a byte behind a different byte already queued while
\* another thread was inside a write of its own on the same buffer.
C21_Witness ==
  /\ Returned_write
  /\ last.ret = 1
  /\ Len(last.pre) = 1
  /\ last.pre[1] # last.src[1]
  /\ \E u \in DOMAIN th :
       /\ u # last.t
       /\ th[u].op = "write"
       /\ th[u].pc \in {"called", "waiting", "woken"}

====
